---- MODULE Spec2Model ----
(***************************************************************************)
(* Group<K, V>: an extension of the native Map with query, transform,      *)
(* positional, get-or-create, sweep and merge operations.                  *)
(*                                                                         *)
(* A group is the ordered list of the Map's live entries.  JavaScript      *)
(* numbers that are used as positions are kept in half units so that a     *)
(* non-integer number (1.5) and NaN are values of the model.               *)
(***************************************************************************)
EXTENDS Integers, Sequences, FiniteSets, TLC

\* ---------------------------------------------------------------- bounds
MaxVal == 2          \* values are 1..MaxVal
MaxAmount == 5       \* first/last amounts are -1..MaxAmount
MaxIdx == 4          \* at/keyAt indexes are -MaxIdx..MaxIdx, in half steps
MaxFnOps == 2        \* Map mutations a sweep callback makes in one sweep
MaxArgs == 2         \* arguments of one concact call

Keys == {"a", "b", "c"}
Values == 1..MaxVal
NoKey == "-"

VARIABLES
    group,      \* the receiver: sequence of [key, value], keys distinct
    others,     \* the other Group objects of the program (concact arguments)
    call,       \* the last operation called and its arguments
    ret,        \* what that call returned or threw
    pc,         \* "idle", or "sweep" while a sweep's for-of loop is running
    data,       \* during a sweep: the Map's entry list, deleted slots kept
    it,         \* during a sweep: entries of data the iterator has passed
    before,     \* the receiver's entries when the last call started
    log,        \* the entries the last sweep's callback was invoked with
    effs        \* the mutations the callback made so far in the last sweep

vars == <<group, others, call, ret, pc, data, it, before, log, effs>>

\* ------------------------------------------------------------ Map (native)
Entry(k, v) == [key |-> k, value |-> v]

keys(g) == [i \in 1..Len(g) |-> g[i].key]
values(g) == [i \in 1..Len(g) |-> g[i].value]

has(g, k) == \E i \in 1..Len(g) : g[i].key = k

IndexOf(g, k) == CHOOSE i \in 1..Len(g) : g[i].key = k

get(g, k) == g[IndexOf(g, k)].value

\* Map.prototype.set: an existing key keeps its position, a new key is appended
set(g, k, v) ==
    IF has(g, k) THEN [g EXCEPT ![IndexOf(g, k)].value = v]
    ELSE Append(g, Entry(k, v))

SelectSeq2(g, k) == SelectSeq(g, LAMBDA e : e.key # k)

\* Map.prototype.delete
delete(g, k) == SelectSeq2(g, k)

\* ------------------------------------------------------- JavaScript values
\* a number n is [type |-> "number", nan |-> FALSE, twice |-> 2 * n]
Num(n) == [type |-> "number", nan |-> FALSE, twice |-> 2 * n]
Half(h) == [type |-> "number", nan |-> FALSE, twice |-> h]
NaN == [type |-> "number", nan |-> TRUE, twice |-> 0]
NotANumber == [type |-> "string", nan |-> FALSE, twice |-> 0]
Undefined == [type |-> "undefined", nan |-> FALSE, twice |-> 0]

IsInteger(x) == x.type = "number" /\ ~x.nan /\ x.twice % 2 = 0

\* ToIntegerOrInfinity: NaN is 0, otherwise truncate towards zero
ToIntegerOrInfinity(x) ==
    IF x.nan THEN 0
    ELSE IF x.twice >= 0 THEN x.twice \div 2
    ELSE -((-x.twice) \div 2)

Min(a, b) == IF a < b THEN a ELSE b
Max(a, b) == IF a > b THEN a ELSE b

\* Array.prototype.slice(from, to) on integers, 0-based, negative from the end
RelIndex(len, i) == IF i < 0 THEN Max(len + i, 0) ELSE Min(i, len)

slice(s, from, to) ==
    LET k == RelIndex(Len(s), from)
        f == RelIndex(Len(s), to)
    IN  IF k >= f THEN <<>> ELSE SubSeq(s, k + 1, f)

\* results
NoRet == [kind |-> "none", val |-> 0, key |-> NoKey, list |-> <<>>,
          ents |-> <<>>, calls |-> 0]
RetThis(n) == [NoRet EXCEPT !.kind = "this", !.calls = n]
RetThrow == [NoRet EXCEPT !.kind = "GroupError"]
RetAbsent(n) == [NoRet EXCEPT !.kind = "absent", !.calls = n]
RetValue(v, n) == [NoRet EXCEPT !.kind = "value", !.val = v, !.calls = n]
RetKey(k, n) == [NoRet EXCEPT !.kind = "key", !.key = k, !.calls = n]
RetList(l) == [NoRet EXCEPT !.kind = "list", !.list = l]
RetBool(b, n) == [NoRet EXCEPT !.kind = IF b THEN "true" ELSE "false", !.calls = n]
RetGroup(e, n) == [NoRet EXCEPT !.kind = "group", !.ents = e, !.calls = n]

\* callbacks: fn is (value) => value > t; a generator is () => t;
\* pure = FALSE marks a callback whose body also mutates the group
Fn(t) == [callable |-> TRUE, t |-> t, pure |-> TRUE]
NotCallable == [callable |-> FALSE, t |-> 0, pure |-> TRUE]
Fns == {Fn(t) : t \in 0..MaxVal} \cup {NotCallable}
Truthy(fn, v) == v > fn.t

NoCall == [op |-> "new", fn |-> NotCallable, key |-> NoKey, num |-> Undefined,
           args |-> <<>>]

\* --------------------------------------------------- Group: pure queries
\* position of the first entry a for-of loop over g stops at, 0 when none
FirstWhere(g, fn, want) ==
    IF \E i \in 1..Len(g) : Truthy(fn, g[i].value) = want
    THEN CHOOSE i \in 1..Len(g) :
            /\ Truthy(fn, g[i].value) = want
            /\ \A j \in 1..(i - 1) : Truthy(fn, g[j].value) # want
    ELSE 0

each(g, fn) ==
    IF ~fn.callable THEN RetThrow ELSE RetThis(Len(g))

find(g, fn) ==
    IF ~fn.callable THEN RetThrow
    ELSE LET i == FirstWhere(g, fn, TRUE)
         IN  IF i = 0 THEN RetAbsent(Len(g)) ELSE RetValue(g[i].value, i)

findKey(g, fn) ==
    IF ~fn.callable THEN RetThrow
    ELSE LET i == FirstWhere(g, fn, TRUE)
         IN  IF i = 0 THEN RetAbsent(Len(g)) ELSE RetKey(g[i].key, i)

\* the test of filter negated
RECURSIVE FilterLoop_negated(_, _, _, _)
FilterLoop_negated(g, fn, i, acc) ==
    IF i > Len(g) THEN acc
    ELSE FilterLoop_negated(g, fn, i + 1,
            IF ~Truthy(fn, g[i].value) THEN set(acc, g[i].key, g[i].value)
            ELSE acc)

\* the loop of filter: filteredGroup.set(key, value) for each truthy entry
RECURSIVE FilterLoop(_, _, _, _)
FilterLoop(g, fn, i, acc) ==
    IF i > Len(g) THEN acc
    ELSE FilterLoop(g, fn, i + 1,
            IF Truthy(fn, g[i].value) THEN set(acc, g[i].key, g[i].value)
            ELSE acc)

filter(g, fn) ==
    IF ~fn.callable THEN RetThrow
    ELSE RetGroup(FilterLoop(g, fn, 1, <<>>), Len(g))

\* the loop of map, with fn = (value) => value + t
RECURSIVE MapLoop(_, _, _, _)
MapLoop(g, fn, i, acc) ==
    IF i > Len(g) THEN acc
    ELSE MapLoop(g, fn, i + 1, set(acc, g[i].key, g[i].value + fn.t))

map(g, fn) ==
    IF ~fn.callable THEN RetThrow
    ELSE RetGroup(MapLoop(g, fn, 1, <<>>), Len(g))

every(g, fn) ==
    IF ~fn.callable THEN RetThrow
    ELSE LET i == FirstWhere(g, fn, FALSE)
         IN  IF i = 0 THEN RetBool(TRUE, Len(g)) ELSE RetBool(FALSE, i)

some(g, fn) ==
    IF ~fn.callable THEN RetThrow
    ELSE LET i == FirstWhere(g, fn, TRUE)
         IN  IF i = 0 THEN RetBool(FALSE, Len(g)) ELSE RetBool(TRUE, i)

\* values[i] of a JavaScript array, 0-based: undefined outside 0..length-1
ElemAt(s, i) ==
    IF i >= 0 /\ i < Len(s) THEN RetValue(s[i + 1], 0) ELSE RetAbsent(0)

\* amount >= 1 in place of amount > 1
first_fromOne(g, amount) ==
    LET vals == values(g)
    IN  IF amount.type = "number" /\ ~amount.nan /\ amount.twice >= 2
        THEN RetList(slice(vals, 0, ToIntegerOrInfinity(amount)))
        ELSE ElemAt(vals, 0)

first(g, amount) ==
    LET vals == values(g)
    IN  IF amount.type = "number" /\ ~amount.nan /\ amount.twice > 2
        THEN RetList(slice(vals, 0, ToIntegerOrInfinity(amount)))
        ELSE ElemAt(vals, 0)

last(g, amount) ==
    LET vals == values(g)
    IN  IF amount.type = "number" /\ ~amount.nan /\ amount.twice > 2
        THEN RetList(slice(vals, Len(vals) - ToIntegerOrInfinity(amount), Len(vals)))
        ELSE ElemAt(vals, Len(vals) - 1)

\* an index lookup that does not count negative indexes from the end
ArrayAt_plain(s, index) ==
    LET k == ToIntegerOrInfinity(index)
    IN  IF k < 0 \/ k >= Len(s) THEN 0 ELSE k + 1

\* Array.prototype.at
ArrayAt(s, index) ==
    LET rel == ToIntegerOrInfinity(index)
        k == IF rel >= 0 THEN rel ELSE Len(s) + rel
    IN  IF k < 0 \/ k >= Len(s) THEN 0 ELSE k + 1

at(g, index) ==
    IF index.type # "number" THEN RetThrow
    ELSE LET p == ArrayAt(values(g), index)
         IN  IF p = 0 THEN RetAbsent(0) ELSE RetValue(values(g)[p], 0)

keyAt(g, index) ==
    IF index.type # "number" THEN RetThrow
    ELSE LET p == ArrayAt(keys(g), index)
         IN  IF p = 0 THEN RetAbsent(0) ELSE RetKey(keys(g)[p], 0)

\* ------------------------------------------------------ Group: mutators
\* fallback and concact give the group after the call and the result
\* no has(key) test: the generator runs and its value is stored every time
fallback_always(g, key, generator) ==
    IF ~generator.callable THEN [group |-> g, ret |-> RetThrow]
    ELSE LET g2 == set(g, key, generator.t)
         IN  [group |-> g2, ret |-> RetValue(get(g2, key), 1)]

\* the typeof test placed after the has(key) test
fallback_lateCheck(g, key, generator) ==
    IF has(g, key) THEN [group |-> g, ret |-> RetValue(get(g, key), 0)]
    ELSE IF ~generator.callable THEN [group |-> g, ret |-> RetThrow]
    ELSE LET g2 == set(g, key, generator.t)
         IN  [group |-> g2, ret |-> RetValue(get(g2, key), 1)]

fallback(g, key, generator) ==
    IF ~generator.callable THEN [group |-> g, ret |-> RetThrow]
    ELSE IF has(g, key) THEN [group |-> g, ret |-> RetValue(get(g, key), 0)]
    ELSE LET g2 == set(g, key, generator.t)
         IN  [group |-> g2, ret |-> RetValue(get(g2, key), 1)]

\* an argument of concact: a reference to a Group object (0 is the receiver,
\* i > 0 is others[i]) or a value that is no Group
ArgGroup(i) == [isGroup |-> TRUE, ref |-> i]
ArgOther == [isGroup |-> FALSE, ref |-> 0]
Deref(g, oth, a) == IF a.ref = 0 THEN g ELSE oth[a.ref]

\* a merge that keeps the value of a key the receiver already has
RECURSIVE SetAll_keep(_, _, _)
SetAll_keep(g, src, i) ==
    IF i > Len(src) THEN g
    ELSE SetAll_keep(IF has(g, src[i].key) THEN g
                     ELSE set(g, src[i].key, src[i].value), src, i + 1)

RECURSIVE SetAll(_, _, _)
SetAll(g, src, i) ==
    IF i > Len(src) THEN g
    ELSE SetAll(set(g, src[i].key, src[i].value), src, i + 1)

RECURSIVE ConcactLoop(_, _, _, _)
ConcactLoop(g, oth, args, i) ==
    IF i > Len(args) THEN g
    ELSE ConcactLoop(SetAll(g, Deref(g, oth, args[i]), 1), oth, args, i + 1)

\* each argument tested only when the merge reaches it: the arguments
\* before the first one that is no Group are merged, then the call throws
concact_lazyCheck(g, oth, args) ==
    IF \E i \in 1..Len(args) : ~args[i].isGroup
    THEN LET bad == CHOOSE i \in 1..Len(args) :
                        ~args[i].isGroup /\ \A j \in 1..(i - 1) : args[j].isGroup
         IN  [group |-> ConcactLoop(g, oth, SubSeq(args, 1, bad - 1), 1),
              others |-> oth, ret |-> RetThrow]
    ELSE [group |-> ConcactLoop(g, oth, args, 1), others |-> oth,
          ret |-> RetThis(0)]

concact(g, oth, args) ==
    IF \E i \in 1..Len(args) : ~args[i].isGroup
    THEN [group |-> g, others |-> oth, ret |-> RetThrow]
    ELSE [group |-> ConcactLoop(g, oth, args, 1), others |-> oth,
          ret |-> RetThis(0)]

\* ------------------------------------------------------------- sweep
\* While the for-of loop of sweep runs, the Map is its entry list with the
\* deleted slots kept (ECMAScript [[MapData]]): the iterator is a position in
\* that list, a deletion empties a slot, a new key is appended.
Slot(k, v) == [key |-> k, value |-> v, live |-> TRUE]

ToData(g) == [i \in 1..Len(g) |-> Slot(g[i].key, g[i].value)]

RECURSIVE Live(_)
Live(d) ==
    IF d = <<>> THEN <<>>
    ELSE IF d[1].live THEN <<Entry(d[1].key, d[1].value)>> \o Live(Tail(d))
    ELSE Live(Tail(d))

dhas(d, k) == \E i \in 1..Len(d) : d[i].live /\ d[i].key = k

dset(d, k, v) ==
    IF dhas(d, k)
    THEN [i \in 1..Len(d) |->
            IF d[i].live /\ d[i].key = k THEN [d[i] EXCEPT !.value = v] ELSE d[i]]
    ELSE Append(d, Slot(k, v))

\* a deletion that closes the gap instead of leaving the slot empty
ddelete_splice(d, k) == SelectSeq(d, LAMBDA x : ~(x.live /\ x.key = k))

ddelete(d, k) ==
    [i \in 1..Len(d) |->
        IF d[i].live /\ d[i].key = k THEN [d[i] EXCEPT !.live = FALSE] ELSE d[i]]

\* what the body of a callback does to the group besides answering
NoEffect == [kind |-> "none", key |-> NoKey, value |-> 0]
Effects ==
    {NoEffect}
        \cup {[kind |-> "set", key |-> k, value |-> 1] : k \in Keys}
        \cup {[kind |-> "delete", key |-> k, value |-> 0] : k \in Keys}

ApplyEffect(d, eff) ==
    IF eff.kind = "set" THEN dset(d, eff.key, eff.value)
    ELSE IF eff.kind = "delete" THEN ddelete(d, eff.key)
    ELSE d

\* the slot the iterator yields next: the first live one after position i
NextSlot(d, i) ==
    IF \E j \in (i + 1)..Len(d) : d[j].live
    THEN CHOOSE j \in (i + 1)..Len(d) :
            d[j].live /\ \A m \in (i + 1)..(j - 1) : ~d[m].live
    ELSE 0

\* the test of the loop negated
sweepBody_inverted(d, j, fn, eff) ==
    LET d1 == ApplyEffect(d, eff)
    IN  IF ~Truthy(fn, d[j].value) THEN ddelete(d1, d[j].key) ELSE d1

\* one turn of the loop on slot j: fn(value, key, this), then this.delete(key)
sweepBody(d, j, fn, eff) ==
    LET d1 == ApplyEffect(d, eff)
    IN  IF Truthy(fn, d[j].value) THEN ddelete(d1, d[j].key) ELSE d1

\* ------------------------------------------------------------ actions
Idle ==
    /\ pc = "idle"
    /\ pc' = "idle"
    /\ data' = <<>>
    /\ it' = 0
    /\ before' = group
    /\ log' = <<>>
    /\ effs' = <<>>

Call(op, fn, key, num, args) ==
    [op |-> op, fn |-> fn, key |-> key, num |-> num, args |-> args]

\* a query: the group is not assigned
Query(op, fn, num, r) ==
    /\ Idle
    /\ call' = Call(op, fn, NoKey, num, <<>>)
    /\ ret' = r
    /\ UNCHANGED <<group, others>>

Set ==
    \E k \in Keys, v \in Values :
        /\ Idle
        /\ group' = set(group, k, v)
        /\ call' = Call("set", NotCallable, k, Undefined, <<>>)
        /\ ret' = RetThis(0)
        /\ UNCHANGED others

Delete ==
    \E k \in Keys :
        /\ Idle
        /\ group' = delete(group, k)
        /\ call' = Call("delete", NotCallable, k, Undefined, <<>>)
        /\ ret' = RetBool(has(group, k), 0)
        /\ UNCHANGED others

EachOp == \E fn \in Fns : Query("each", fn, Undefined, each(group, fn))
FindOp == \E fn \in Fns : Query("find", fn, Undefined, find(group, fn))
FilterOp == \E fn \in Fns : Query("filter", fn, Undefined, filter(group, fn))
MapOp == \E fn \in Fns : Query("map", fn, Undefined, map(group, fn))
FindKeyOp == \E fn \in Fns : Query("findKey", fn, Undefined, findKey(group, fn))
EveryOp == \E fn \in Fns : Query("every", fn, Undefined, every(group, fn))
SomeOp == \E fn \in Fns : Query("some", fn, Undefined, some(group, fn))

Amounts == {Undefined} \cup {Num(n) : n \in (-1)..MaxAmount}
Indexes ==
    {Half(h) : h \in (-2 * MaxIdx)..(2 * MaxIdx)} \cup {NaN, NotANumber}

FirstOp == \E a \in Amounts : Query("first", NotCallable, a, first(group, a))
LastOp == \E a \in Amounts : Query("last", NotCallable, a, last(group, a))
AtOp == \E x \in Indexes : Query("at", NotCallable, x, at(group, x))
KeyAtOp == \E x \in Indexes : Query("keyAt", NotCallable, x, keyAt(group, x))

Generators == {Fn(t) : t \in Values} \cup {NotCallable}

FallbackOp ==
    \E k \in Keys, gen \in Generators :
        LET r == fallback(group, k, gen)
        IN  /\ Idle
            /\ group' = r.group
            /\ call' = Call("fallback", gen, k, Undefined, <<>>)
            /\ ret' = r.ret
            /\ UNCHANGED others

\* sweep(fn): the type check, then the loop starts
SweepFns == Fns \cup {[Fn(t) EXCEPT !.pure = FALSE] : t \in 0..MaxVal}

SweepWith(fns) ==
    \E fn \in fns :
        /\ pc = "idle"
        /\ call' = Call("sweep", fn, NoKey, Undefined, <<>>)
        /\ it' = 0
        /\ log' = <<>>
        /\ effs' = <<>>
        /\ before' = group
        /\ IF ~fn.callable
           THEN /\ ret' = RetThrow
                /\ pc' = "idle"
                /\ data' = <<>>
           ELSE /\ ret' = NoRet
                /\ pc' = "sweep"
                /\ data' = ToData(group)
        /\ UNCHANGED <<group, others>>

\* sweep with a callback that leaves the group alone
SweepCall == SweepWith(Fns)

SweepStep ==
    /\ pc = "sweep"
    /\ NextSlot(data, it) # 0
    /\ LET j == NextSlot(data, it)
       IN  \E eff \in Effects :
            /\ eff # NoEffect => ~call.fn.pure /\ Len(effs) < MaxFnOps
            /\ data' = sweepBody(data, j, call.fn, eff)
            /\ it' = j
            /\ log' = Append(log, Entry(data[j].key, data[j].value))
            /\ effs' = IF eff = NoEffect THEN effs ELSE Append(effs, eff)
    /\ group' = Live(data')
    /\ UNCHANGED <<others, call, ret, pc, before>>

SweepReturn ==
    /\ pc = "sweep"
    /\ NextSlot(data, it) = 0
    /\ pc' = "idle"
    /\ ret' = RetThis(Len(log))
    /\ data' = <<>>
    /\ it' = 0
    /\ UNCHANGED <<group, others, call, before, log, effs>>

Init ==
    /\ group = <<>>
    /\ others = <<>>
    /\ call = NoCall
    /\ ret = NoRet
    /\ pc = "idle"
    /\ data = <<>>
    /\ it = 0
    /\ before = <<>>
    /\ log = <<>>
    /\ effs = <<>>

Next ==
    \/ Set
    \/ Delete
    \/ EachOp
    \/ FindOp
    \/ FilterOp
    \/ MapOp
    \/ FindKeyOp
    \/ EveryOp
    \/ SomeOp
    \/ FirstOp
    \/ LastOp
    \/ AtOp
    \/ KeyAtOp
    \/ FallbackOp
    \/ SweepCall
    \/ SweepStep
    \/ SweepReturn

Spec == Init /\ [][Next]_vars

\* ------------------------------------------------- concact on three groups
\* every ordering of every subset of Keys
RECURSIVE KeySeqs(_)
KeySeqs(S) ==
    {<<>>} \cup UNION {{<<k>> \o t : t \in KeySeqs(S \ {k})} : k \in S}

\* new Group(iterable) holding the value v under every key
UniGroup(ks, v) == [i \in 1..Len(ks) |-> Entry(ks[i], v)]

\* the receiver holds any one value; others[i] holds the value i
Receivers == {UniGroup(ks, v) : ks \in KeySeqs(Keys), v \in Values}
OtherGroups(v) == {UniGroup(ks, v) : ks \in KeySeqs(Keys)}

ConcactArgs == {ArgGroup(1), ArgGroup(2), ArgOther}

RECURSIVE ArgLists(_)
ArgLists(n) ==
    IF n = 0 THEN {<<>>}
    ELSE ArgLists(n - 1)
            \cup {Append(l, a) : l \in {m \in ArgLists(n - 1) : Len(m) = n - 1},
                                 a \in ConcactArgs}

ConcactOp ==
    \E args \in ArgLists(MaxArgs) :
        LET r == concact(group, others, args)
        IN  /\ Idle
            /\ call.op = "new"
            /\ group' = r.group
            /\ others' = r.others
            /\ call' = Call("concact", NotCallable, NoKey, Undefined, args)
            /\ ret' = r.ret

InitConcat ==
    /\ group \in Receivers
    /\ others \in {<<g1, g2>> : g1 \in OtherGroups(1), g2 \in OtherGroups(2)}
    /\ call = NoCall
    /\ ret = NoRet
    /\ pc = "idle"
    /\ data = <<>>
    /\ it = 0
    /\ before = group
    /\ log = <<>>
    /\ effs = <<>>

NextConcat == ConcactOp

SpecConcat == InitConcat /\ [][NextConcat]_vars

\* ------------------------------------- one sweep, the callback may mutate
\* new Group(iterable) for every iterable over Keys and Values
RECURSIVE GroupsOn(_)
GroupsOn(ks) ==
    IF ks = <<>> THEN {<<>>}
    ELSE {<<Entry(ks[1], v)>> \o g : v \in Values, g \in GroupsOn(Tail(ks))}

AllGroups == UNION {GroupsOn(ks) : ks \in KeySeqs(Keys)}

SweepAnyCall == call.op = "new" /\ SweepWith(SweepFns)

InitSweep ==
    /\ group \in AllGroups
    /\ others = <<>>
    /\ call = NoCall
    /\ ret = NoRet
    /\ pc = "idle"
    /\ data = <<>>
    /\ it = 0
    /\ before = group
    /\ log = <<>>
    /\ effs = <<>>

NextSweep ==
    \/ SweepAnyCall
    \/ SweepStep
    \/ SweepReturn

SpecSweep == InitSweep /\ [][NextSweep]_vars

\* ===================================================================
\* Properties
\* ===================================================================
IntOf(x) == ToIntegerOrInfinity(x)

\* the number of entries of g that fn accepts
Accepted(g, fn) == Cardinality({i \in 1..Len(g) : Truthy(fn, g[i].value)})

Rejects(g, fn) == SelectSeq(g, LAMBDA e : ~Truthy(fn, e.value))
Accepts(g, fn) == SelectSeq(g, LAMBDA e : Truthy(fn, e.value))

SweepReturned == pc = "idle" /\ call.op = "sweep" /\ ret.kind = "this"

\* C1: after sweep(P) with a side-effect-free P returns, no remaining entry
\* satisfies P, the size is the size before minus the number of entries that
\* satisfied P, the entries that did not satisfy P are all there with their
\* values in the same relative order, and the call returned the group itself.
C1_SweepRemovesExactlyMatches ==
    (pc = "idle" /\ call.op = "sweep" /\ call.fn.callable /\ call.fn.pure) =>
        /\ ret.kind = "this"
        /\ some(group, call.fn).kind = "false"
        /\ Len(group) = Len(before) - Accepted(before, call.fn)
        /\ group = Rejects(before, call.fn)

\* a sweep that removed two neighbouring entries and kept a third
C1_Witness ==
    /\ SweepReturned
    /\ call.fn.pure
    /\ Len(before) = 3
    /\ Truthy(call.fn, before[1].value)
    /\ Truthy(call.fn, before[2].value)
    /\ ~Truthy(call.fn, before[3].value)
    /\ group = <<before[3]>>

\* the trailing min(n, Len(s)) elements of s
Trailing(s, n) == SubSeq(s, Len(s) - Min(n, Len(s)) + 1, Len(s))
Leading(s, n) == SubSeq(s, 1, Min(n, Len(s)))

\* C2: for every integer n > 1, last(n) returns the list of the trailing
\* min(n, size) values in iteration order; for n > size that is all the values.
C2_LastIsTrailingSlice ==
    (call.op = "last" /\ IsInteger(call.num) /\ IntOf(call.num) > 1) =>
        ret = RetList(Trailing(values(group), IntOf(call.num)))

\* C3: first() and first(n) with n <= 1 return the single first value, absent
\* on an empty group; first(n) with n > 1 returns the list of the leading
\* min(n, size) values; first never changes the group.
C3_FirstIsLeadingSlice ==
    call.op = "first" =>
        /\ group = before
        /\ IF IsInteger(call.num) /\ IntOf(call.num) > 1
           THEN ret = RetList(Leading(values(group), IntOf(call.num)))
           ELSE IF group = <<>> THEN ret = RetAbsent(0)
           ELSE ret = RetValue(group[1].value, 0)

\* first(n) with n beyond the size, on a group with several values
C3_Witness ==
    /\ call.op = "first"
    /\ IsInteger(call.num)
    /\ IntOf(call.num) > Len(group)
    /\ Len(group) >= 2
    /\ ret.kind = "list"
    /\ Len(ret.list) = Len(group)

\* first(1) on a group with several values
C3_WitnessOne ==
    call.op = "first" /\ call.num = Num(1) /\ Len(group) >= 2 /\ ret.kind = "value"

\* C4, one call: fallback(k, gen) on a group without k invokes gen once,
\* appends (k, gen's result) at the end and returns that result; on a group
\* with k it returns the stored value, does not invoke gen and changes nothing.
C4_OneCall ==
    (call.op = "fallback" /\ call.fn.callable) =>
        IF has(before, call.key)
        THEN /\ ret = RetValue(get(before, call.key), 0)
             /\ group = before
        ELSE /\ ret = RetValue(call.fn.t, 1)
             /\ group = Append(before, Entry(call.key, call.fn.t))

\* C4, two calls: a fallback on the key of the fallback just before it returns
\* the same value, invokes no generator and leaves the group as it was.
C4_SecondCall ==
    (/\ call.op = "fallback" /\ ret.kind = "value"
     /\ call'.op = "fallback" /\ call'.key = call.key /\ call'.fn.callable)
        => (ret'.val = ret.val /\ ret'.calls = 0 /\ group' = group)

\* C4: fallback is get-or-create, and two consecutive fallback calls with the
\* same key return the same value and invoke the generator only once.
C4_FallbackGetOrCreate == [](C4_OneCall) /\ [][C4_SecondCall]_vars

\* a fallback that found its key, stored by an earlier generator, and was
\* handed a generator of another value
C4_Witness ==
    /\ call.op = "fallback"
    /\ call.fn.callable
    /\ has(before, call.key)
    /\ ret.kind = "value"
    /\ ret.calls = 0
    /\ ret.val # call.fn.t
    /\ Len(group) >= 2

\* a fallback that created its entry behind others
C4_WitnessCreate ==
    /\ call.op = "fallback"
    /\ ret.calls = 1
    /\ Len(before) >= 1
    /\ group = Append(before, Entry(call.key, call.fn.t))

\* concact called with Group arguments only, none of them the receiver
ConcactOfOthers ==
    /\ call.op = "concact"
    /\ \A i \in 1..Len(call.args) : call.args[i].isGroup /\ call.args[i].ref # 0

ArgEntries(i) == others[call.args[i].ref]

\* the arguments that hold k
Holders(k) == {i \in 1..Len(call.args) : has(ArgEntries(i), k)}
FirstHolder(k) == CHOOSE i \in Holders(k) : \A j \in Holders(k) : i <= j
LastHolder(k) == CHOOSE i \in Holders(k) : \A j \in Holders(k) : i >= j

\* k1 comes before k2 when new keys are taken argument by argument
NewKeyOrder(k1, k2) ==
    \/ FirstHolder(k1) < FirstHolder(k2)
    \/ /\ FirstHolder(k1) = FirstHolder(k2)
       /\ IndexOf(ArgEntries(FirstHolder(k1)), k1) < IndexOf(ArgEntries(FirstHolder(k1)), k2)

C5_Result ==
    ConcactOfOthers =>
        /\ ret.kind = "this"
        /\ \A k \in Keys : has(group, k) <=> (has(before, k) \/ Holders(k) # {})
        /\ \A k \in Keys : has(group, k) =>
              get(group, k) = IF Holders(k) # {}
                              THEN get(ArgEntries(LastHolder(k)), k)
                              ELSE get(before, k)
        /\ Len(group) >= Len(before)
        /\ keys(SubSeq(group, 1, Len(before))) = keys(before)
        /\ \A p, q \in (Len(before) + 1)..Len(group) :
              p < q => NewKeyOrder(group[p].key, group[q].key)

\* C5: concact(G1..Gn) with arguments other than the receiver returns the
\* receiver; afterwards it holds the union of the keys, each with the value of
\* the last argument holding it or else its own; its keys keep their places,
\* new keys follow in argument order, then source order; and no argument
\* group is modified.
C5_ConcactMerges == [](C5_Result) /\ [][others' = others]_vars

\* two arguments that share a key the receiver has, with new keys from both
C5_Witness ==
    /\ ConcactOfOthers
    /\ Len(call.args) = 2
    /\ call.args[1].ref # call.args[2].ref
    /\ \E k \in Keys : has(before, k) /\ Holders(k) = {1, 2}
                        /\ get(group, k) # get(before, k)
    /\ Len(before) = 1
    /\ Len(group) = 3
    /\ Holders(group[2].key) = {1}
    /\ Holders(group[3].key) = {2}
    /\ ret.kind = "this"

CallbackOps ==
    {"each", "find", "filter", "map", "findKey", "every", "some", "sweep",
     "fallback"}

\* C6: each, find, filter, map, findKey, every, some, sweep and fallback called
\* with a non-callable callback throw GroupError before any callback is
\* invoked, and the group has the entries and the order it had before.
C6_NonCallableThrows ==
    (call.op \in CallbackOps /\ ~call.fn.callable) =>
        /\ pc = "idle"
        /\ ret.kind = "GroupError"
        /\ ret.calls = 0
        /\ log = <<>>
        /\ group = before

\* fallback with a non-callable generator on a key the group has
C6_Witness ==
    /\ call.op = "fallback"
    /\ ~call.fn.callable
    /\ has(group, call.key)
    /\ ret.kind = "GroupError"
    /\ Len(group) >= 2

\* sweep with a non-callable callback on a group with entries
C6_WitnessSweep ==
    call.op = "sweep" /\ ~call.fn.callable /\ ret.kind = "GroupError" /\ Len(group) >= 2

\* C7: at(index) and keyAt(index) throw GroupError for every index that is
\* not an integer, a non-integer number such as 1.5 or NaN included.
C7_NonIntegerIndexThrows ==
    (call.op \in {"at", "keyAt"} /\ ~IsInteger(call.num)) =>
        ret.kind = "GroupError"

\* C8: filter(P) returns a new group with exactly the entries P accepts, in
\* their order, so every(P) is true of it; the receiver is unchanged.
C8_FilterKeepsMatches ==
    (call.op = "filter" /\ call.fn.callable) =>
        /\ ret.kind = "group"
        /\ ret.ents = Accepts(group, call.fn)
        /\ every(ret.ents, call.fn).kind = "true"
        /\ group = before

\* a filter that kept two entries and dropped one between them
C8_Witness ==
    /\ call.op = "filter"
    /\ Len(group) = 3
    /\ ret.kind = "group"
    /\ ret.ents = <<group[1], group[3]>>

\* a filter that kept nothing
C8_WitnessEmpty ==
    call.op = "filter" /\ Len(group) >= 1 /\ ret.kind = "group" /\ ret.ents = <<>>

\* the entry at(i) and keyAt(i) are to give: 0 when out of range
Position(n, i) ==
    IF 0 <= i /\ i < n THEN i + 1
    ELSE IF -n <= i /\ i < 0 THEN n + i + 1
    ELSE 0

\* C9: for an integer i, at(i) and keyAt(i) give the value and the key at
\* position i, or at size + i for a negative i, and absent when i >= size or
\* i < -size; at(i) is the value stored under keyAt(i); the group is unchanged.
C9_PositionalAccess ==
    (call.op \in {"at", "keyAt"} /\ IsInteger(call.num)) =>
        LET p == Position(Len(group), call.num.twice \div 2)
            v == at(group, call.num)
            k == keyAt(group, call.num)
        IN  /\ group = before
            /\ ret = IF call.op = "at" THEN v ELSE k
            /\ p = 0 => v = RetAbsent(0) /\ k = RetAbsent(0)
            /\ p # 0 => /\ v = RetValue(group[p].value, 0)
                        /\ k = RetKey(group[p].key, 0)
                        /\ v.val = get(group, k.key)

\* at with a negative index inside the range
C9_Witness ==
    /\ call.op = "at"
    /\ call.num = Num(-2)
    /\ Len(group) = 3
    /\ group[2].value # group[3].value
    /\ ret = RetValue(group[2].value, 0)

\* keyAt with a negative index below the range
C9_WitnessOut ==
    call.op = "keyAt" /\ call.num = Num(-3) /\ Len(group) = 2 /\ ret.kind = "absent"

\* how many times the callback was invoked with the entry e
Visits(e) == Cardinality({i \in 1..Len(log) : log[i] = e})
KeyVisits(k) == Cardinality({i \in 1..Len(log) : log[i].key = k})

InSeq(e, g) == \E i \in 1..Len(g) : g[i] = e

\* the keys the callback's own mutations named
Touched == {effs[i].key : i \in 1..Len(effs)}
Inserts == Cardinality({i \in 1..Len(effs) : effs[i].kind = "set"})

\* C10 as stated: sweep passes once over a snapshot of the entries present
\* when it started: fn is invoked exactly once for each of them and for no
\* other entry, also when fn inserts or deletes entries during the pass.
C10_SnapshotPass ==
    SweepReturned =>
        /\ \A i \in 1..Len(before) : Visits(before[i]) = 1
        /\ \A i \in 1..Len(log) : InSeq(log[i], before)

\* C10 amended: sweep passes once over the live group.  With a callback that
\* does not change the group, fn is invoked exactly once for each entry
\* present at the start, in order, and for no other.  With a callback that
\* does, each starting entry whose key the callback leaves alone is still
\* visited exactly once, an entry visited that was not there at the start is
\* one the callback stored, the visits are at most the starting entries plus
\* the callback's stores, and every key left in the group has been visited.
C10_LivePass ==
    SweepReturned =>
        /\ effs = <<>> => log = before
        /\ \A i \in 1..Len(before) :
              before[i].key \notin Touched => Visits(before[i]) = 1
        /\ \A i \in 1..Len(log) :
              InSeq(log[i], before) \/ log[i].key \in Touched
        /\ Len(log) <= Len(before) + Inserts
        /\ \A i \in 1..Len(group) : KeyVisits(group[i].key) >= 1

\* a sweep whose callback stored an entry under a new key, which the pass
\* then visited and kept
C10_Witness ==
    /\ SweepReturned
    /\ Len(before) = 2
    /\ Len(log) = 3
    /\ ~has(before, log[3].key)
    /\ has(group, log[3].key)

\* a sweep whose callback deleted a starting entry before the pass reached it
C10_WitnessDeleted ==
    /\ SweepReturned
    /\ Len(before) = 2
    /\ Len(effs) = 1
    /\ KeyVisits(before[2].key) = 0

\* a sweep with a callback that changed nothing, over three entries
C10_WitnessPure ==
    SweepReturned /\ effs = <<>> /\ Len(before) = 3 /\ Len(log) = 3 /\ Len(group) = 2

\* concact called with an argument that is no Group
ConcactOfNonGroup ==
    /\ call.op = "concact"
    /\ \E i \in 1..Len(call.args) : ~call.args[i].isGroup

\* C11: concact tests all its arguments before it merges any: when an
\* argument at any position is no Group, the call throws GroupError and the
\* receiver has exactly the entries and the order it had before the call.
C11_ConcactValidatesFirst ==
    ConcactOfNonGroup =>
        /\ ret.kind = "GroupError"
        /\ group = before

\* a Group argument with a key new to the receiver and a value for a key the
\* receiver has, followed by an argument that is no Group
C11_Witness ==
    /\ ConcactOfNonGroup
    /\ Len(call.args) = 2
    /\ call.args[1].isGroup
    /\ ~call.args[2].isGroup
    /\ \E k \in Keys : has(others[call.args[1].ref], k) /\ ~has(before, k)
    /\ \E k \in Keys : /\ has(others[call.args[1].ref], k)
                       /\ has(before, k)
                       /\ get(others[call.args[1].ref], k) # get(before, k)
    /\ ret.kind = "GroupError"

\* an argument that is no Group in the first position, a Group after it
C11_WitnessFirst ==
    /\ ConcactOfNonGroup
    /\ Len(call.args) = 2
    /\ ~call.args[1].isGroup
    /\ call.args[2].isGroup
    /\ others[call.args[2].ref] # <<>>
    /\ ret.kind = "GroupError"
====
